---- MODULE Spec2Model ----
(***************************************************************************)
(* Model of src/lib/supabase.ts: the UMKM record store (umkmService) with  *)
(* its two backends (Supabase table "umkm" / localStorage key "umkm") and  *)
(* the session manager of AuthProvider (login, register, logout,           *)
(* changePassword) over the localStorage keys "registered_users",          *)
(* "auth_user" and "admin_passwords".                                      *)
(***************************************************************************)
EXTENDS Integers, Sequences, FiniteSets, TLC

VARIABLES
    hasSupabase,       \* Boolean(url && anon), fixed for a run
    umkm,              \* the stored business profiles: localStorage "umkm" or table "umkm"
    dbUsers,           \* rows of the remote table "users" (id, rw)
    registered_users,  \* localStorage "registered_users"
    user,              \* React state `user` of AuthProvider
    auth_user,         \* localStorage "auth_user"
    admin_passwords,   \* localStorage "admin_passwords"
    isLoading,         \* React state `isLoading` of AuthProvider: the mount effect has not run
    now,               \* the wall clock read by Date.now() / new Date()
    last               \* the last call made: its arguments and its outcome

vars == <<hasSupabase, umkm, dbUsers, registered_users, user, auth_user,
          admin_passwords, isLoading, now, last>>

storeVars == <<hasSupabase, umkm, dbUsers>>
authVars == <<registered_users, user, auth_user, admin_passwords, isLoading>>

----------------------------------------------------------------------------
(* Bounds of the model *)

MaxRecords == 2
MaxTime == MaxRecords
MaxUsers == 2

----------------------------------------------------------------------------
(* Identifiers and the UUID test *)

ADMIN_RW01_ID == "550e8400-e29b-41d4-a716-446655440001"
ADMIN_RW04_ID == "550e8400-e29b-41d4-a716-446655440004"
UuidA == "1b9d6bcd-bbfd-4b2d-9b5d-ab8dfbbd4bed"
UuidB == "9c858901-8a57-4791-81fe-4c455b099bc9"
NotAUuid == "not-a-uuid"
\* Identifiers of the kind stored before UUIDs were adopted: Date.now().toString()
LegacyId1 == "1718000000001"
LegacyId2 == "1718000000002"
Undefined == "undefined"   \* an argument or field that is absent (undefined / null)
NoTime == -1               \* an absent timestamp field

\* The characters of each identifier string the model uses.
Chars(s) ==
    CASE s = ADMIN_RW01_ID -> <<"5","5","0","e","8","4","0","0","-","e","2","9","b","-","4","1","d","4","-","a","7","1","6","-","4","4","6","6","5","5","4","4","0","0","0","1">>
      [] s = ADMIN_RW04_ID -> <<"5","5","0","e","8","4","0","0","-","e","2","9","b","-","4","1","d","4","-","a","7","1","6","-","4","4","6","6","5","5","4","4","0","0","0","4">>
      [] s = UuidA -> <<"1","b","9","d","6","b","c","d","-","b","b","f","d","-","4","b","2","d","-","9","b","5","d","-","a","b","8","d","f","b","b","d","4","b","e","d">>
      [] s = UuidB -> <<"9","c","8","5","8","9","0","1","-","8","a","5","7","-","4","7","9","1","-","8","1","f","e","-","4","c","4","5","5","b","0","9","9","b","c","9">>
      [] s = NotAUuid -> <<"n","o","t","-","a","-","u","u","i","d">>
      [] s = LegacyId1 -> <<"1","7","1","8","0","0","0","0","0","0","0","0","1">>
      [] s = LegacyId2 -> <<"1","7","1","8","0","0","0","0","0","0","0","0","2">>
      [] OTHER -> <<>>

HexDigit == {"0","1","2","3","4","5","6","7","8","9",
             "a","b","c","d","e","f","A","B","C","D","E","F"}

\* The positions of the hyphens in 8-4-4-4-12.
HyphenAt == {9, 14, 19, 24}

\* /^[0-9a-f]{8}-[0-9a-f]{4}-[0-9a-f]{4}-[0-9a-f]{4}-[0-9a-f]{12}$/i
MatchesUUIDPattern(cs) ==
    /\ Len(cs) = 36
    /\ \A i \in 1..36 : IF i \in HyphenAt THEN cs[i] = "-" ELSE cs[i] \in HexDigit

\* JavaScript truthiness of a string-or-undefined value.
Truthy(s) == s # Undefined /\ s # ""

isValidUUID(str) == Truthy(str) /\ MatchesUUIDPattern(Chars(str))

\* "xxxxxxxx-xxxx-4xxx-yxxx-xxxxxxxxxxxx" with x any hex digit, y one of 8 9 a b.
MatchesV4Template(cs) ==
    /\ Len(cs) = 36
    /\ \A i \in 1..36 :
          IF i \in HyphenAt THEN cs[i] = "-"
          ELSE IF i = 15 THEN cs[i] = "4"
          ELSE IF i = 20 THEN cs[i] \in {"8","9","a","b"}
          ELSE cs[i] \in {"0","1","2","3","4","5","6","7","8","9","a","b","c","d","e","f"}

\* The values generateUUID() can return, within the model's identifiers: the
\* generator draws every digit from Math.random() and consults no stored state.
generateUUID == {s \in {UuidA, UuidB, NotAUuid} :
                    MatchesV4Template(Chars(s))}

\* ensureValidUUID(id): the values it can return.
ensureValidUUID_Passthrough(id) == {id}

ensureValidUUID(id) == IF isValidUUID(id) THEN {id} ELSE generateUUID

----------------------------------------------------------------------------
(* Values of the model *)

\* Date.now().toString() of a clock value; record identifiers are such strings
\* (the local backend makes them so, the remote table assigns its own).
RecIds == {ToString(t) : t \in 0..MaxTime}

\* Owner identifiers passed by callers.
OwnerArgs == {UuidA, UuidB, NotAUuid}

\* Jurisdiction tags passed to getAll: one that users carry, one that none does.
RWArgs == {"01", "09"}

\* Partial<UMKM>: a field that is Undefined is absent. The fields are the
\* form's (nama_usaha stands for them) and the two keys, id and user_id.
NoPayload == [nama_usaha |-> Undefined, id |-> Undefined, user_id |-> Undefined]

UpdatePayloads ==
    {[NoPayload EXCEPT !.nama_usaha = n] : n \in {"Toko Baru"}}
    \cup {[NoPayload EXCEPT !.id = i] : i \in {ToString(0)}}
    \cup {[NoPayload EXCEPT !.user_id = u] : u \in {UuidB}}

\* { ...item, ...payload }
Spread(item, payload) ==
    [item EXCEPT
        !.nama_usaha = IF payload.nama_usaha = Undefined THEN @ ELSE payload.nama_usaha,
        !.id = IF payload.id = Undefined THEN @ ELSE payload.id,
        !.user_id = IF payload.user_id = Undefined THEN @ ELSE payload.user_id]

\* The clock values a call can read: time does not go back, and two calls can
\* fall in the same millisecond.
ClockReads == {t \in {now, now + 1} : t <= MaxTime}

\* The call record: arguments and outcome of the last call.
NoCall == [op |-> "none", id |-> Undefined, userId |-> Undefined, adminRW |-> Undefined,
           username |-> Undefined, password |-> Undefined,
           newPassword |-> Undefined, rw |-> Undefined, rwChoice |-> Undefined,
           res |-> <<>>, ok |-> FALSE, raised |-> FALSE, err |-> FALSE]

----------------------------------------------------------------------------
(* The record store: umkmService *)

\* list.findIndex((u) => u.id === id && u.user_id === userId), 0 for -1
FindOwnedIndex_IdOnly(list, id, userId) ==
    IF \E i \in 1..Len(list) : list[i].id = id
    THEN CHOOSE i \in 1..Len(list) :
            /\ list[i].id = id
            /\ \A j \in 1..(i - 1) : ~(list[j].id = id)
    ELSE 0

FindOwnedIndex(list, id, userId) ==
    IF \E i \in 1..Len(list) : list[i].id = id /\ list[i].user_id = userId
    THEN CHOOSE i \in 1..Len(list) :
            /\ list[i].id = id /\ list[i].user_id = userId
            /\ \A j \in 1..(i - 1) : ~(list[j].id = id /\ list[j].user_id = userId)
    ELSE 0

\* list.filter((u) => !(u.id === id && u.user_id === userId))
WithoutOwned_IdOnly(list, id, userId) ==
    LET Keep(u) == ~(u.id = id) IN SelectSeq(list, Keep)

WithoutOwned(list, id, userId) ==
    LET Keep(u) == ~(u.id = id /\ u.user_id = userId) IN SelectSeq(list, Keep)

\* users.filter((u) => u.rw === adminRW).map((u) => u.id), and the remote
\* from("users").select("id").eq("rw", adminRW)
RwUserIds_AnyRW(users, adminRW) ==
    {users[i].id : i \in 1..Len(users)}

RwUserIds(users, adminRW) ==
    {users[i].id : i \in {j \in 1..Len(users) : users[j].rw = adminRW}}

\* allData.filter((item) => rwUsers.includes(item.user_id)), and the remote
\* query.in("user_id", userIds)
OwnedByAny(list, ids) ==
    LET Keep(item) == item.user_id \in ids IN SelectSeq(list, Keep)

\* allData.filter((item) => item.user_id === userId), and the remote
\* query.eq("user_id", userId)
OwnedBy(list, userId) ==
    LET Keep(item) == item.user_id = userId IN SelectSeq(list, Keep)

IsSortedDesc(seq) ==
    \A i \in 1..Len(seq), j \in 1..Len(seq) : i < j => seq[i].created_at >= seq[j].created_at

\* from("umkm").select("*").order("created_at", { ascending: false }): the
\* orders the table may return its rows in; rows of equal created_at come in
\* any order.
OrderByCreatedAtDesc(rows) ==
    {s \in {[i \in 1..Len(rows) |-> rows[p[i]]] : p \in Permutations(1..Len(rows))} :
        IsSortedDesc(s)}

\* getAll, local backend (lines 96-106)
GetAllLocal(userId, adminRW) ==
    IF Truthy(adminRW)
    THEN OwnedByAny(umkm, RwUserIds(registered_users, adminRW))
    ELSE IF Truthy(userId) THEN OwnedBy(umkm, userId) ELSE umkm

\* getAll, remote backend (lines 108-142): the outcomes the call can have.
\* userError and error are the errors the two requests can report.
GetAllRemote_ErrorIgnored(userId, adminRW) ==
    {[res |-> rows, err |-> error] :
        error \in BOOLEAN, rows \in OrderByCreatedAtDesc(umkm)}

GetAllRemote(userId, adminRW) ==
    {   IF Truthy(adminRW)
        THEN IF userError THEN [res |-> <<>>, err |-> TRUE]
             ELSE IF RwUserIds(dbUsers, adminRW) = {} THEN [res |-> <<>>, err |-> FALSE]
             ELSE IF error THEN [res |-> <<>>, err |-> TRUE]
             ELSE [res |-> OwnedByAny(rows, RwUserIds(dbUsers, adminRW)), err |-> FALSE]
        ELSE IF Truthy(userId)
        THEN IF ~isValidUUID(userId) THEN [res |-> <<>>, err |-> FALSE]
             ELSE IF error THEN [res |-> <<>>, err |-> TRUE]
             ELSE [res |-> OwnedBy(rows, userId), err |-> FALSE]
        ELSE IF error THEN [res |-> <<>>, err |-> TRUE]
             ELSE [res |-> rows, err |-> FALSE]
        : userError \in BOOLEAN, error \in BOOLEAN, rows \in OrderByCreatedAtDesc(umkm) }

GetAll(userId, adminRW) ==
    /\ \E out \in IF hasSupabase THEN GetAllRemote(userId, adminRW)
                  ELSE {[res |-> GetAllLocal(userId, adminRW), err |-> FALSE]} :
          last' = [NoCall EXCEPT !.op = "getAll", !.userId = userId, !.adminRW = adminRW,
                                 !.res = out.res, !.err = out.err]
    /\ UNCHANGED <<storeVars, authVars, now>>

\* ls.save([newItem, ...list])
LocalInsert_Append(list, newItem) == list \o <<newItem>>

LocalInsert(list, newItem) == <<newItem>> \o list

Create(payload, userId) ==
    /\ Len(umkm) < MaxRecords
    /\ \E validUserId \in ensureValidUUID(userId), t \in ClockReads :
          /\ now' = t
          /\ IF ~hasSupabase
             THEN LET newItem == [id |-> ToString(t),
                                  user_id |-> validUserId,
                                  nama_usaha |-> payload.nama_usaha,
                                  created_at |-> NoTime, updated_at |-> NoTime,
                                  born |-> t]
                  IN /\ umkm' = LocalInsert(umkm, newItem)
                     /\ last' = [NoCall EXCEPT !.op = "create", !.userId = userId, !.res = <<newItem>>]
             ELSE \E error \in BOOLEAN,
                     id \in {i \in RecIds : \A k \in 1..Len(umkm) : umkm[k].id # i} :
                    IF error
                    THEN /\ umkm' = umkm
                         /\ last' = [NoCall EXCEPT !.op = "create", !.userId = userId, !.raised = TRUE,
                                                   !.err = TRUE]
                    ELSE \* the row as the table returns it: the identifier and
                         \* the timestamps are the table's defaults
                         LET row == [id |-> id,
                                     user_id |-> validUserId,
                                     nama_usaha |-> payload.nama_usaha,
                                     created_at |-> t, updated_at |-> t, born |-> t]
                         IN /\ umkm' = Append(umkm, row)
                            /\ last' = [NoCall EXCEPT !.op = "create", !.userId = userId, !.res = <<row>>]
    /\ UNCHANGED <<hasSupabase, dbUsers, authVars>>

Update(id, payload, userId) ==
    LET call == [NoCall EXCEPT !.op = "update", !.id = id, !.userId = userId]
    IN
    /\ IF ~hasSupabase
       THEN LET itemIndex == FindOwnedIndex(umkm, id, userId) IN
            IF itemIndex = 0
            THEN /\ umkm' = umkm
                 /\ now' = now
                 /\ last' = [call EXCEPT !.raised = TRUE]
            ELSE /\ umkm' = [umkm EXCEPT ![itemIndex] = Spread(@, payload)]
                 /\ now' = now
                 /\ last' = [call EXCEPT !.res = <<Spread(umkm[itemIndex], payload)>>]
       ELSE IF ~isValidUUID(userId)
       THEN /\ umkm' = umkm
            /\ now' = now
            /\ last' = [call EXCEPT !.raised = TRUE]
       ELSE \E error \in BOOLEAN, t \in {now} :
            LET hit == {i \in 1..Len(umkm) : umkm[i].id = id /\ umkm[i].user_id = userId}
                new(i) == [Spread(umkm[i], payload) EXCEPT !.updated_at = t]
                clash == \E i \in hit, j \in 1..Len(umkm) : j # i /\ umkm[j].id = new(i).id
            IN
            /\ now' = t
            /\ IF error \/ clash \/ Cardinality(hit) # 1
               THEN \* a backend error, a primary-key clash, or .single() on
                    \* a result that is not exactly one row
                    /\ umkm' = umkm
                    /\ last' = [call EXCEPT !.raised = TRUE, !.err = error]
               ELSE LET i == CHOOSE i \in hit : TRUE IN
                    /\ umkm' = [umkm EXCEPT ![i] = new(i)]
                    /\ last' = [call EXCEPT !.res = <<new(i)>>]
    /\ UNCHANGED <<hasSupabase, dbUsers, authVars>>

\* delete(), remote backend: from("umkm").delete().eq("id", id).eq("user_id", userId)
\* reports no error when it matches no row.
Delete(id, userId) ==
    LET call == [NoCall EXCEPT !.op = "delete", !.id = id, !.userId = userId]
        filteredList == WithoutOwned(umkm, id, userId)
    IN
    /\ IF ~hasSupabase
       THEN IF Len(filteredList) = Len(umkm)
            THEN /\ umkm' = umkm
                 /\ last' = [call EXCEPT !.raised = TRUE]
            ELSE /\ umkm' = filteredList
                 /\ last' = [call EXCEPT !.ok = TRUE]
       ELSE IF ~isValidUUID(userId)
       THEN /\ umkm' = umkm
            /\ last' = [call EXCEPT !.raised = TRUE]
       ELSE \E error \in BOOLEAN :
            IF error
            THEN /\ umkm' = umkm
                 /\ last' = [call EXCEPT !.raised = TRUE, !.err = TRUE]
            ELSE /\ umkm' = filteredList
                 /\ last' = [call EXCEPT !.ok = TRUE]
    /\ UNCHANGED <<hasSupabase, dbUsers, authVars, now>>

\* ls.all().find((u) => u.id === id), as a sequence of at most one record
FindById(list, id) ==
    LET Is(u) == u.id = id
        found == SelectSeq(list, Is)
    IN IF found = <<>> THEN <<>> ELSE <<Head(found)>>

\* userId && item && item.user_id !== userId (line 258)
OwnerDiffers_Never(item, userId) == FALSE

OwnerDiffers(item, userId) ==
    Truthy(userId) /\ item # <<>> /\ item[1].user_id # userId

GetById(id, userId) ==
    LET call == [NoCall EXCEPT !.op = "getById", !.id = id, !.userId = userId] IN
    /\ IF ~hasSupabase
       THEN LET item == FindById(umkm, id) IN
            IF OwnerDiffers(item, userId)
            THEN last' = call
            ELSE last' = [call EXCEPT !.res = item]
       ELSE IF Truthy(userId) /\ ~isValidUUID(userId)
       THEN last' = call
       ELSE \E error \in BOOLEAN :
            LET Is(u) == u.id = id /\ (Truthy(userId) => u.user_id = userId)
                rows == SelectSeq(umkm, Is)
            IN IF error THEN last' = [call EXCEPT !.err = TRUE]
               ELSE IF Len(rows) # 1 THEN last' = call   \* .single() reports an error
               ELSE last' = [call EXCEPT !.res = rows]
    /\ UNCHANGED <<storeVars, authVars, now>>

----------------------------------------------------------------------------
(* The session manager: AuthProvider *)

Null == [null |-> TRUE]

DEFAULT_ADMIN_PASSWORD == "admin"

ADMIN_USERS ==
    << [id |-> ADMIN_RW01_ID, username |-> "admin", name |-> "Ketua RW 01",
        role |-> "admin", rw |-> "01", created_at |-> 0,
        must_change_password |-> TRUE, last_password_change |-> NoTime],
       [id |-> ADMIN_RW04_ID, username |-> "admin", name |-> "Ketua RW 04",
        role |-> "admin", rw |-> "04", created_at |-> 0,
        must_change_password |-> TRUE, last_password_change |-> NoTime] >>

\* A registry entry as register() builds it.
NewUser(id, userData, t) ==
    [id |-> id, username |-> userData.username, password |-> userData.password,
     name |-> userData.name, role |-> "user", rw |-> userData.rw, created_at |-> t,
     last_password_change |-> NoTime]

\* The registries the store specification starts from: each is what register()
\* leaves after zero, one or two registrations.
StoreRegistries ==
    LET budi == NewUser(UuidA, [username |-> "budi", password |-> "secret1",
                                name |-> "Budi", rw |-> "01"], 0)
        siti == NewUser(UuidB, [username |-> "siti", password |-> "secret1",
                                name |-> "Siti", rw |-> "04"], 0)
    IN {<<budi, siti>>}

\* The contents the remote table "users" can have; no code of this file writes it.
DbUserTables ==
    {<<[id |-> UuidA, rw |-> "01"], [id |-> UuidB, rw |-> "04"]>>}

StoreInit ==
    /\ hasSupabase \in BOOLEAN
    /\ umkm = <<>>
    /\ dbUsers \in (IF hasSupabase THEN DbUserTables ELSE {<<>>})
    /\ registered_users \in (IF hasSupabase THEN {<<>>} ELSE StoreRegistries)
    /\ user = Null
    /\ auth_user = Null
    /\ admin_passwords = [a \in {} |-> Undefined]
    /\ isLoading = FALSE
    /\ now = 0
    /\ last = NoCall

CreatePayloads == {[NoPayload EXCEPT !.nama_usaha = n] : n \in {"Toko Bunga"}}

StoreNext ==
    \/ \E userId \in {Undefined, UuidA, NotAUuid}, adminRW \in RWArgs \cup {Undefined} :
          GetAll(userId, adminRW)
    \/ \E payload \in CreatePayloads, userId \in OwnerArgs : Create(payload, userId)
    \/ \E id \in RecIds, payload \in UpdatePayloads, userId \in OwnerArgs :
          Update(id, payload, userId)
    \/ \E id \in RecIds, userId \in OwnerArgs : Delete(id, userId)
    \/ \E id \in RecIds, userId \in {Undefined, UuidA, NotAUuid} : GetById(id, userId)

StoreSpec == StoreInit /\ [][StoreNext]_vars

----------------------------------------------------------------------------
(* Session manager operations *)

Usernames == {"admin", "budi", "siti"}
\* The default password is itself shorter than the minimum length.
Passwords == {DEFAULT_ADMIN_PASSWORD, "secret1", "rahasia2"}

\* The answers to the prompt "Pilih RW Anda": "1", "2", or anything else.
RwChoices == {"1", "2", "3"}

RegisterInputs ==
    {[username |-> u, password |-> p, name |-> "Nama",
      rw |-> IF u = "siti" THEN "04" ELSE "01"] :
        u \in Usernames, p \in {DEFAULT_ADMIN_PASSWORD, "secret1"}}

AdminIds == {ADMIN_USERS[i].id : i \in 1..Len(ADMIN_USERS)}

\* adminPasswords[id]: undefined when the map has no such key
AdminPassword_ByUsername(id) ==
    IF "admin" \in DOMAIN admin_passwords THEN admin_passwords["admin"] ELSE Undefined

AdminPassword(id) ==
    IF id \in DOMAIN admin_passwords THEN admin_passwords[id] ELSE Undefined

\* const { password: _, ...userWithoutPassword } = foundUser
StripPassword_Keep(foundUser) == foundUser

StripPassword(foundUser) == [f \in DOMAIN foundUser \ {"password"} |-> foundUser[f]]

\* The minimum length of a new password (lines 530, 562).
MinPasswordLength == 6

\* login(), the branch for username "admin" with the default password (lines 415-441)
LoginAdminDefault(call) ==
    \E rwChoice \in RwChoices :
        LET selectedRW == IF rwChoice = "1" THEN "01" ELSE IF rwChoice = "2" THEN "04" ELSE ""
            c == [call EXCEPT !.rwChoice = rwChoice]
        IN
        IF selectedRW = ""
        THEN /\ last' = c
             /\ UNCHANGED <<registered_users, user, auth_user>>
        ELSE LET adminUser ==
                    ADMIN_USERS[CHOOSE i \in 1..Len(ADMIN_USERS) : ADMIN_USERS[i].rw = selectedRW]
             IN IF Truthy(AdminPassword(adminUser.id))
                THEN /\ last' = c
                     /\ UNCHANGED <<registered_users, user, auth_user>>
                ELSE /\ user' = adminUser
                     /\ auth_user' = adminUser
                     /\ last' = [c EXCEPT !.ok = TRUE]
                     /\ UNCHANGED registered_users

\* The admins whose stored custom password is `password` (lines 445-447)
CustomMatches(password) ==
    {i \in 1..Len(ADMIN_USERS) :
        /\ Truthy(AdminPassword(ADMIN_USERS[i].id))
        /\ password = AdminPassword(ADMIN_USERS[i].id)}

\* users.find((u) => u.username === username && u.password === password), 0 for none
FindCredentials_PasswordOnly(users, username, password) ==
    LET hit == {i \in 1..Len(users) : users[i].password = password}
    IN IF hit = {} THEN 0 ELSE CHOOSE i \in hit : \A j \in hit : i <= j

FindCredentials(users, username, password) ==
    LET hit == {i \in 1..Len(users) :
                    users[i].username = username /\ users[i].password = password}
    IN IF hit = {} THEN 0 ELSE CHOOSE i \in hit : \A j \in hit : i <= j

\* login(), the registry scan (lines 457-478)
LoginRegistry(call) ==
    LET users == registered_users
        found == FindCredentials(users, call.username, call.password)
    IN
    IF found = 0
    THEN /\ last' = call
         /\ UNCHANGED <<registered_users, user, auth_user>>
    ELSE IF ~isValidUUID(users[found].id)
    THEN \E newId \in generateUUID :
            LET foundUser == [users[found] EXCEPT !.id = newId]
                hit == {i \in 1..Len(users) : users[i].username = call.username}
                userIndex == CHOOSE i \in hit : \A j \in hit : i <= j
            IN /\ registered_users' = [[users EXCEPT ![found] = foundUser]
                                          EXCEPT ![userIndex] = foundUser]
               /\ user' = StripPassword(foundUser)
               /\ auth_user' = StripPassword(foundUser)
               /\ last' = [call EXCEPT !.ok = TRUE]
    ELSE /\ user' = StripPassword(users[found])
         /\ auth_user' = StripPassword(users[found])
         /\ last' = [call EXCEPT !.ok = TRUE]
         /\ UNCHANGED registered_users

Login(username, password) ==
    LET call == [NoCall EXCEPT !.op = "login", !.username = username, !.password = password]
    IN
    /\ IF username = "admin" /\ password = DEFAULT_ADMIN_PASSWORD
       THEN LoginAdminDefault(call)
       ELSE IF username = "admin" /\ CustomMatches(password) # {}
       THEN LET i == CHOOSE i \in CustomMatches(password) :
                        \A j \in CustomMatches(password) : i <= j
                updatedAdmin == [ADMIN_USERS[i] EXCEPT !.must_change_password = FALSE]
            IN /\ user' = updatedAdmin
               /\ auth_user' = updatedAdmin
               /\ last' = [call EXCEPT !.ok = TRUE]
               /\ UNCHANGED registered_users
       ELSE LoginRegistry(call)
    /\ UNCHANGED <<storeVars, admin_passwords, isLoading, now>>

\* register(): whether the username is refused (lines 482-491)
UsernameTaken_AdminOnly(users, username) == username = "admin"

UsernameTaken(users, username) ==
    \/ username = "admin"
    \/ \E i \in 1..Len(users) : users[i].username = username

Register(userData) ==
    LET call == [NoCall EXCEPT !.op = "register", !.username = userData.username,
                               !.password = userData.password, !.rw = userData.rw]
    IN
    /\ IF UsernameTaken(registered_users, userData.username)
       THEN /\ last' = call
            /\ UNCHANGED registered_users
       ELSE /\ Len(registered_users) < MaxUsers
            /\ \E id \in generateUUID :
                  registered_users' = Append(registered_users, NewUser(id, userData, now))
            /\ last' = [call EXCEPT !.ok = TRUE]
    /\ UNCHANGED <<storeVars, user, auth_user, admin_passwords, isLoading, now>>

Logout ==
    /\ user' = Null
    /\ auth_user' = Null
    /\ last' = [NoCall EXCEPT !.op = "logout"]
    /\ UNCHANGED <<storeVars, registered_users, admin_passwords, isLoading, now>>

\* changePassword(): the checks on the new password, after the old one has
\* been accepted (lines 530-536 and 562-568)
NewPasswordRefused_NoLength(oldPassword, newPassword) == oldPassword = newPassword

NewPasswordRefused_NoDiffer(oldPassword, newPassword) ==
    Len(newPassword) < MinPasswordLength

NewPasswordRefused(oldPassword, newPassword) ==
    \/ Len(newPassword) < MinPasswordLength
    \/ oldPassword = newPassword

\* users.findIndex((u) => u.id === user.id), 0 for -1 (line 552)
FindUserIndex_First(users, id) == IF users = <<>> THEN 0 ELSE 1

FindUserIndex(users, id) ==
    LET hit == {i \in 1..Len(users) : users[i].id = id}
    IN IF hit = {} THEN 0 ELSE CHOOSE i \in hit : \A j \in hit : i <= j

ChangePassword(oldPassword, newPassword) ==
    LET call == [NoCall EXCEPT !.op = "changePassword", !.password = oldPassword,
                               !.newPassword = newPassword]
        fail == /\ last' = call
                /\ UNCHANGED <<registered_users, user, auth_user, admin_passwords>>
    IN
    /\ IF user = Null
       THEN fail
       ELSE IF user.role = "admin"
       THEN LET currentPassword == IF Truthy(AdminPassword(user.id))
                                   THEN AdminPassword(user.id)
                                   ELSE DEFAULT_ADMIN_PASSWORD
            IN IF oldPassword # currentPassword \/ NewPasswordRefused(oldPassword, newPassword)
               THEN fail
               ELSE LET updatedUser == [user EXCEPT !.must_change_password = FALSE,
                                                    !.last_password_change = now]
                    IN /\ admin_passwords' =
                             [a \in DOMAIN admin_passwords \cup {user.id} |->
                                 IF a = user.id THEN newPassword ELSE admin_passwords[a]]
                       /\ user' = updatedUser
                       /\ auth_user' = updatedUser
                       /\ last' = [call EXCEPT !.ok = TRUE]
                       /\ UNCHANGED registered_users
       ELSE LET users == registered_users
                userIndex == FindUserIndex(users, user.id)
            IN IF userIndex = 0
               THEN fail
               ELSE IF \/ oldPassword # users[userIndex].password
                       \/ NewPasswordRefused(oldPassword, newPassword)
                    THEN fail
                    ELSE /\ registered_users' =
                               [users EXCEPT ![userIndex].password = newPassword,
                                             ![userIndex].last_password_change = now]
                         /\ last' = [call EXCEPT !.ok = TRUE]
                         /\ UNCHANGED <<user, auth_user, admin_passwords>>
    /\ UNCHANGED <<storeVars, isLoading, now>>

AuthInit ==
    /\ hasSupabase = FALSE
    /\ umkm = <<>>
    /\ dbUsers = <<>>
    /\ registered_users = <<>>
    /\ user = Null
    /\ auth_user = Null
    /\ admin_passwords = [a \in {} |-> Undefined]
    /\ isLoading = FALSE
    /\ now = 0
    /\ last = NoCall

AuthNext ==
    \/ \E username \in Usernames, password \in Passwords : Login(username, password)
    \/ \E userData \in RegisterInputs : Register(userData)
    \/ Logout
    \/ \E oldPassword \in Passwords, newPassword \in Passwords :
          ChangePassword(oldPassword, newPassword)

AuthSpec == AuthInit /\ [][AuthNext]_vars

----------------------------------------------------------------------------
(* The mount effect of AuthProvider: migration of stored identities *)

\* migrateUsersToUUID (lines 362-380): the registries it can leave. Every
\* entry whose id is not a UUID gets one from generateUUID(), each its own.
migrateUsersToUUID(users) ==
    {[i \in 1..Len(users) |->
         IF isValidUUID(users[i].id) THEN users[i] ELSE [users[i] EXCEPT !.id = g[i]]] :
       g \in [1..Len(users) -> generateUUID]}

\* "Also update in registered_users" (lines 393-398): the first entry with the
\* session's username takes the session's new id.
AdoptSessionId_Skip(users, userData) == users

AdoptSessionId(users, userData) ==
    LET hit == {i \in 1..Len(users) : users[i].username = userData.username}
    IN IF hit = {} THEN users
       ELSE LET userIndex == CHOOSE i \in hit : \A j \in hit : i <= j
            IN [users EXCEPT ![userIndex].id = userData.id]

\* The effect of lines 360-411: migrateUsersToUUID(), migrateCurrentUser(),
\* setIsLoading(false). It runs once, when the provider has mounted.
Initialize ==
    /\ isLoading
    /\ \E updatedUsers \in migrateUsersToUUID(registered_users) :
          IF auth_user = Null
          THEN /\ registered_users' = updatedUsers
               /\ UNCHANGED <<user, auth_user>>
          ELSE IF ~isValidUUID(auth_user.id)
          THEN \E newId \in generateUUID :
                  LET userData == [auth_user EXCEPT !.id = newId] IN
                  /\ auth_user' = userData
                  /\ registered_users' = AdoptSessionId(updatedUsers, userData)
                  /\ user' = userData
          ELSE /\ registered_users' = updatedUsers
               /\ user' = auth_user
               /\ auth_user' = auth_user
    /\ isLoading' = FALSE
    /\ last' = [NoCall EXCEPT !.op = "init",
                              !.id = IF auth_user = Null THEN Undefined ELSE auth_user.id]
    /\ UNCHANGED <<storeVars, admin_passwords, now>>

\* The session login() persists for a registry entry: the entry without its
\* password.
SessionOf(u) ==
    [id |-> u.id, username |-> u.username, name |-> u.name, role |-> u.role,
     rw |-> u.rw, created_at |-> u.created_at,
     last_password_change |-> u.last_password_change]

\* The registries a browser can hold when the provider mounts: entries stored
\* before UUIDs were adopted, alone or with an entry registered since.
MountRegistries ==
    LET budi == NewUser(LegacyId1, [username |-> "budi", password |-> "secret1",
                                    name |-> "Budi", rw |-> "01"], 0)
        siti == NewUser(LegacyId2, [username |-> "siti", password |-> "secret1",
                                    name |-> "Siti", rw |-> "04"], 0)
        sitiNew == [siti EXCEPT !.id = UuidB]
    IN {<<budi>>, <<budi, siti>>, <<budi, sitiNew>>}

\* The sessions that can be persisted beside a registry: none, or the one a
\* login of one of its entries left.
MountSessions(users) ==
    {Null} \cup {SessionOf(users[i]) : i \in 1..Len(users)}

MountInit ==
    /\ hasSupabase = FALSE
    /\ umkm = <<>>
    /\ dbUsers = <<>>
    /\ registered_users \in MountRegistries
    /\ auth_user \in MountSessions(registered_users)
    /\ user = Null
    /\ admin_passwords = [a \in {} |-> Undefined]
    /\ isLoading = TRUE
    /\ now = 0
    /\ last = NoCall

MountNext ==
    \/ Initialize
    \/ \E username \in Usernames, password \in Passwords : Login(username, password)
    \/ \E userData \in RegisterInputs : Register(userData)
    \/ Logout
    \/ \E oldPassword \in Passwords, newPassword \in Passwords :
          ChangePassword(oldPassword, newPassword)

MountSpec == MountInit /\ [][MountNext]_vars

----------------------------------------------------------------------------
(* Properties of the record store, checked under StoreSpec *)

\* Some stored record has both this id and this owner.
Matches(id, userId) ==
    \E i \in 1..Len(umkm) : umkm[i].id = id /\ umkm[i].user_id = userId

\* C1: in both backend modes an update(id, payload, ownerId) for which no
\* stored record has both that id and that ownerId raises an error to the
\* caller, and leaves the stored records exactly as they were.
C1_UpdateUnmatchedRaises ==
    [][ (last'.op = "update" /\ ~Matches(last'.id, last'.userId))
            => (last'.raised /\ umkm' = umkm) ]_vars

\* C1 witness: the remote backend refused an update of a record that exists
\* under a different owner, with a well-formed owner id and no backend fault.
C1_Witness ==
    /\ last.op = "update" /\ last.raised /\ ~last.err
    /\ hasSupabase /\ isValidUUID(last.userId)
    /\ \E i \in 1..Len(umkm) : umkm[i].id = last.id /\ umkm[i].user_id # last.userId

\* C2: in both backend modes a delete(id, ownerId) for which no stored record
\* has both that id and that ownerId raises an error to the caller, never
\* returns the success flag, and leaves the stored records as they were.
C2_DeleteUnmatchedRaises ==
    [][ (last'.op = "delete" /\ ~Matches(last'.id, last'.userId))
            => (last'.raised /\ ~last'.ok /\ umkm' = umkm) ]_vars

\* The creation timestamp of a stored record: the created_at column of the
\* remote table; for the local backend, which stores no created_at, the
\* Date.now() of the create call.
CreationStamp(r) == IF hasSupabase THEN r.created_at ELSE r.born

\* seq holds exactly the records of list, each as often as list does.
SameRecords(seq, list) ==
    /\ Len(seq) = Len(list)
    /\ \E p \in Permutations(1..Len(list)) : \A i \in 1..Len(list) : seq[i] = list[p[i]]

\* C8: after any sequence of create, update and delete calls, listAll() with
\* neither ownerId nor jurisdiction returns every stored record, newest first
\* by creation timestamp, in both backend modes (when the remote backend
\* reports no error).
C8_ListAllNewestFirst ==
    (last.op = "getAll" /\ ~Truthy(last.userId) /\ ~Truthy(last.adminRW) /\ ~last.err)
        => /\ SameRecords(last.res, umkm)
           /\ \A i \in 1..Len(last.res), j \in 1..Len(last.res) :
                 i < j => CreationStamp(last.res[i]) >= CreationStamp(last.res[j])

\* C8 witness: the local backend listed two records created at different times.
C8_Witness ==
    /\ last.op = "getAll" /\ ~Truthy(last.userId) /\ ~Truthy(last.adminRW)
    /\ ~hasSupabase
    /\ Len(last.res) = 2
    /\ CreationStamp(last.res[1]) > CreationStamp(last.res[2])

\* The owner identifiers in use: of stored records and of known users.
OwnerIdsInUse ==
    {umkm[i].user_id : i \in 1..Len(umkm)}
    \cup {registered_users[i].id : i \in 1..Len(registered_users)}
    \cup {dbUsers[i].id : i \in 1..Len(dbUsers)}

\* C9 as claimed: create(payload, ownerId) persists and returns a record whose
\* owner identifier is a well-formed UUID, equal to ownerId when ownerId is
\* well-formed, and otherwise a generated UUID different from ownerId and
\* from every owner identifier already in use.
C9_CreateOwnerUnused ==
    [][ (last'.op = "create" /\ ~last'.raised)
            => LET r == last'.res[1] IN
               /\ isValidUUID(r.user_id)
               /\ \E i \in 1..Len(umkm') : umkm'[i] = r
               /\ isValidUUID(last'.userId) => r.user_id = last'.userId
               /\ ~isValidUUID(last'.userId)
                     => (r.user_id # last'.userId /\ r.user_id \notin OwnerIdsInUse) ]_vars

\* C9 amended: create(payload, ownerId), when it returns a record, has
\* persisted that record, and its owner identifier is a well-formed UUID:
\* ownerId itself when ownerId is well-formed, otherwise a generated UUID
\* different from ownerId (which may be one already in use).
C9_CreateOwnerWellFormed ==
    [][ (last'.op = "create" /\ ~last'.raised)
            => LET r == last'.res[1] IN
               /\ isValidUUID(r.user_id)
               /\ \E i \in 1..Len(umkm') : umkm'[i] = r
               /\ isValidUUID(last'.userId) => r.user_id = last'.userId
               /\ ~isValidUUID(last'.userId) => r.user_id # last'.userId ]_vars

\* C9 witness: a create with a malformed ownerId returned a record whose
\* generated owner identifier is that of another stored record.
C9_Witness ==
    /\ last.op = "create" /\ ~last.raised
    /\ ~isValidUUID(last.userId)
    /\ isValidUUID(last.res[1].user_id)
    /\ \E i \in 1..Len(umkm) :
          umkm[i] # last.res[1] /\ umkm[i].user_id = last.res[1].user_id

\* The users that resolve a jurisdiction: the remote table "users", or the
\* local registry.
KnownUsers == IF hasSupabase THEN dbUsers ELSE registered_users

\* The owner of r is a user carrying the jurisdiction tag rw.
InJurisdiction(r, rw) ==
    \E k \in 1..Len(KnownUsers) : KnownUsers[k].rw = rw /\ KnownUsers[k].id = r.user_id

\* C10: listAll(ownerId?, jurisdiction) with a jurisdiction given never
\* raises; it returns exactly the stored records whose owner is a user
\* carrying that tag, whatever ownerId is (when the remote backend reports no
\* error), and the empty sequence when no user carries the tag.
C10_ListByJurisdiction ==
    (last.op = "getAll" /\ Truthy(last.adminRW))
        => /\ ~last.raised
           /\ (\A k \in 1..Len(KnownUsers) : KnownUsers[k].rw # last.adminRW)
                 => last.res = <<>>
           /\ ~last.err =>
                 /\ \A i \in 1..Len(last.res) : InJurisdiction(last.res[i], last.adminRW)
                 /\ \A i \in 1..Len(umkm) :
                       InJurisdiction(umkm[i], last.adminRW)
                          => \E j \in 1..Len(last.res) : last.res[j] = umkm[i]
                 /\ Len(last.res) =
                       Cardinality({i \in 1..Len(umkm) : InJurisdiction(umkm[i], last.adminRW)})

\* C10 witness: a listing by jurisdiction, called with an ownerId that is not
\* even well-formed, returned some stored records and left another out.
C10_Witness ==
    /\ last.op = "getAll" /\ Truthy(last.adminRW) /\ ~last.err
    /\ last.userId = NotAUuid
    /\ Len(last.res) >= 1
    /\ Len(last.res) < Len(umkm)

\* C11: getById(id, ownerId) with an ownerId supplied returns a record only
\* when a stored record has that id and that owner, and then returns such a
\* record; when the records with that id all belong to other owners it
\* returns null; it never raises, and no getById modifies the store.
C11_GetByIdOwnerScoped ==
    [][ (last'.op = "getById")
            => /\ umkm' = umkm
               /\ Truthy(last'.userId) =>
                     /\ ~last'.raised
                     /\ last'.res # <<>> =>
                           /\ Len(last'.res) = 1
                           /\ last'.res[1].id = last'.id
                           /\ last'.res[1].user_id = last'.userId
                           /\ \E i \in 1..Len(umkm) : umkm[i] = last'.res[1]
                     /\ ( /\ \E i \in 1..Len(umkm) : umkm[i].id = last'.id
                          /\ ~Matches(last'.id, last'.userId) )
                           => last'.res = <<>> ]_vars

\* C11 witness: the local backend answered null, without a fault, for a
\* record that is stored under another owner than the one asking.
C11_Witness ==
    /\ last.op = "getById" /\ Truthy(last.userId)
    /\ ~hasSupabase
    /\ last.res = <<>> /\ ~last.raised /\ ~last.err
    /\ \E i \in 1..Len(umkm) : umkm[i].id = last.id /\ umkm[i].user_id # last.userId

\* C12: after any sequence of create, update and delete calls, no two stored
\* business profiles have the same identifier.
C12_UniqueIds ==
    \A i \in 1..Len(umkm), j \in 1..Len(umkm) : i # j => umkm[i].id # umkm[j].id

\* How often the record r occurs in list.
Count(list, r) == Cardinality({i \in 1..Len(list) : list[i] = r})

\* C13: a stored business profile changes or disappears only in an update or
\* delete step whose ownerId argument equals that record's owner identifier
\* at the time of the call; no call with another ownerId, and no create,
\* listAll or getById, alters or removes an existing record.
C13_OnlyOwnerAlters ==
    [][ \A i \in 1..Len(umkm) :
            Count(umkm', umkm[i]) < Count(umkm, umkm[i])
                => /\ last'.op \in {"update", "delete"}
                   /\ last'.userId = umkm[i].user_id
                   /\ last'.id = umkm[i].id ]_vars

\* C13 witness: an update by its owner handed a record over to another owner,
\* while a record of a third party stayed in the store.
C13_Witness ==
    /\ last.op = "update" /\ ~last.raised
    /\ last.res[1].user_id # last.userId
    /\ \E i \in 1..Len(umkm) : umkm[i] = last.res[1]
    /\ \E i \in 1..Len(umkm) : umkm[i] # last.res[1]

\* C14: when the remote backend reports an error, listAll returns the empty
\* sequence and getById returns null, neither raising; create, update and
\* delete raise to the caller and return nothing; and the failed call leaves
\* the stored records as they were.
C14_RemoteErrorHandling ==
    [][ last'.err
            => /\ hasSupabase
               /\ umkm' = umkm
               /\ last'.op \in {"getAll", "getById", "create", "update", "delete"}
               /\ last'.op \in {"getAll", "getById"}
                     => (last'.res = <<>> /\ ~last'.raised)
               /\ last'.op \in {"create", "update", "delete"}
                     => (last'.raised /\ ~last'.ok /\ last'.res = <<>>) ]_vars

\* C14 witness: the backend failed on an update that names a stored record
\* and its owner, and the update raised.
C14_Witness ==
    /\ last.op = "update" /\ last.err /\ last.raised
    /\ Matches(last.id, last.userId)

\* What the local backend answers to getById(id, userId) on the records list.
LocalGetById(list, id, userId) ==
    LET item == FindById(list, id) IN
    IF Truthy(userId) /\ item # <<>> /\ item[1].user_id # userId THEN <<>> ELSE item

\* C16: the local backend is a drop-in substitute for the remote one: on the
\* same stored records and with the same arguments, a call has in either mode
\* the outcome the local backend gives it (the same success or failure, the
\* same records returned) and leaves the same records behind, up to generated
\* identifiers and timestamps. Faults of the remote service are left out, and
\* so are listings by jurisdiction, which each backend resolves against its
\* own table of users.
C16_LocalSubstitutesRemote ==
    [][ ~last'.err =>
          /\ last'.op = "create"
                => /\ ~last'.raised
                   /\ Len(umkm') = Len(umkm) + 1
                   /\ \A i \in 1..Len(umkm) : Count(umkm', umkm[i]) >= Count(umkm, umkm[i])
          /\ last'.op = "update"
                => LET itemIndex == FindOwnedIndex(umkm, last'.id, last'.userId) IN
                   IF itemIndex = 0
                   THEN last'.raised /\ umkm' = umkm
                   ELSE /\ ~last'.raised
                        /\ Len(umkm') = Len(umkm)
                        /\ \A k \in 1..Len(umkm) : k # itemIndex => umkm'[k] = umkm[k]
                        /\ last'.res = <<umkm'[itemIndex]>>
          /\ last'.op = "delete"
                => LET filteredList == WithoutOwned(umkm, last'.id, last'.userId) IN
                   IF Len(filteredList) = Len(umkm)
                   THEN last'.raised /\ ~last'.ok /\ umkm' = umkm
                   ELSE last'.ok /\ ~last'.raised /\ umkm' = filteredList
          /\ last'.op = "getById"
                => /\ last'.res = LocalGetById(umkm, last'.id, last'.userId)
                   /\ umkm' = umkm
          /\ (last'.op = "getAll" /\ ~Truthy(last'.adminRW))
                => /\ SameRecords(last'.res,
                                  IF Truthy(last'.userId) THEN OwnedBy(umkm, last'.userId)
                                  ELSE umkm)
                   /\ umkm' = umkm ]_vars

\* C18: every successful update(id, payload, ownerId) sets the record's
\* modification timestamp to the time of the call, in both backend modes: the
\* record returned is the one stored, its modification timestamp is the time
\* of the call, and that is not older than the timestamp it had before.
C18_UpdateStampsTime ==
    [][ (last'.op = "update" /\ ~last'.raised)
            => /\ Len(last'.res) = 1
               /\ \E i \in 1..Len(umkm') : umkm'[i] = last'.res[1]
               /\ last'.res[1].updated_at = now'
               /\ \A i \in 1..Len(umkm) :
                     (umkm[i].id = last'.id /\ umkm[i].user_id = last'.userId)
                        => last'.res[1].updated_at >= umkm[i].updated_at ]_vars

----------------------------------------------------------------------------
(* Properties of the session manager, checked under AuthSpec *)

\* The override stored for a privileged account, Undefined when there is none.
StoredOverride(a) ==
    IF a \in DOMAIN admin_passwords THEN admin_passwords[a] ELSE Undefined

\* C3: when register(data) has returned success, a login(data.username,
\* data.password) issued directly afterwards returns true and makes the
\* current session the user that register created (its identifier, username
\* and jurisdiction), whatever the session slot held before.
C3_RegisterThenLogin ==
    [][ ( /\ last.op = "register" /\ last.ok
          /\ last'.op = "login"
          /\ last'.username = last.username /\ last'.password = last.password )
            => LET created == registered_users[Len(registered_users)] IN
               /\ created.username = last.username /\ created.rw = last.rw
               /\ last'.ok
               /\ user' # Null
               /\ user'.id = created.id
               /\ user'.username = created.username
               /\ user'.rw = created.rw
               /\ auth_user' = user' ]_vars

\* C3 witness: a login succeeded as the user registered last, in a registry
\* that already held another user with the same password.
C3_Witness ==
    /\ last.op = "login" /\ last.ok
    /\ Len(registered_users) = 2
    /\ registered_users[2].username = last.username
    /\ registered_users[1].password = registered_users[2].password
    /\ user # Null
    /\ user.id = registered_users[2].id
    /\ user.username = last.username

\* C4: register(data) returns success = false whenever data.username is the
\* reserved admin username or the username of a registry entry, whatever the
\* other fields are, and then leaves the registry and the session unchanged.
C4_RegisterTakenFails ==
    [][ ( /\ last'.op = "register"
          /\ \/ last'.username = "admin"
             \/ \E i \in 1..Len(registered_users) :
                   registered_users[i].username = last'.username )
            => /\ ~last'.ok
               /\ registered_users' = registered_users
               /\ user' = user
               /\ auth_user' = auth_user ]_vars

\* C4 witness: a registration was refused for a username a registry entry
\* has, with a password other than that entry's.
C4_Witness ==
    /\ last.op = "register" /\ ~last.ok
    /\ last.username # "admin"
    /\ \E i \in 1..Len(registered_users) :
          /\ registered_users[i].username = last.username
          /\ registered_users[i].password # last.password

\* The passwords of the registry, entry by entry.
RegistryPasswords(users) == [i \in 1..Len(users) |-> users[i].password]

\* C5: changePassword(old, new) with new equal to old returns success = false
\* in every state, and leaves the registry passwords and the override map of
\* the privileged accounts unchanged.
C5_SamePasswordFails ==
    [][ (last'.op = "changePassword" /\ last'.newPassword = last'.password)
            => /\ ~last'.ok
               /\ RegistryPasswords(registered_users') = RegistryPasswords(registered_users)
               /\ admin_passwords' = admin_passwords ]_vars

\* C5 witness: a privileged session whose current password is an override
\* of sufficient length asked to change it to itself, and was refused.
C5_Witness ==
    /\ last.op = "changePassword" /\ ~last.ok
    /\ last.newPassword = last.password
    /\ user # Null
    /\ user.role = "admin"
    /\ StoredOverride(user.id) = last.password
    /\ Len(last.newPassword) >= MinPasswordLength

\* C6: changePassword(old, new) with new shorter than 6 characters returns
\* success = false in every state and for both roles; so no override of a
\* privileged account, and no registry password written by changePassword,
\* is ever shorter than 6 characters.
C6_ShortPasswordFails ==
    /\ [][ (last'.op = "changePassword" /\ Len(last'.newPassword) < 6) => ~last'.ok ]_vars
    /\ [] /\ \A a \in DOMAIN admin_passwords :
                Truthy(admin_passwords[a]) => Len(admin_passwords[a]) >= 6
          /\ \A i \in 1..Len(registered_users) :
                registered_users[i].last_password_change # NoTime
                   => Len(registered_users[i].password) >= 6

\* C6 witness: a user with a session gave the right old password and a new
\* one that is too short, and was refused.
C6_Witness ==
    /\ last.op = "changePassword" /\ ~last.ok
    /\ Len(last.newPassword) < 6
    /\ last.newPassword # last.password
    /\ user # Null
    /\ user.role = "user"
    /\ \E i \in 1..Len(registered_users) :
          registered_users[i].id = user.id /\ registered_users[i].password = last.password

\* The privileged account a jurisdiction selection names.
ChosenAdmin(rwChoice) ==
    IF rwChoice = "1" THEN ADMIN_USERS[1] ELSE ADMIN_USERS[2]

\* C7: login("admin", default password) with a valid jurisdiction selection
\* succeeds and makes that privileged identity the current session as long
\* as no override is stored for it; once an override is stored it stays
\* stored, and every such login returns false and leaves the session slot
\* unchanged.
C7_DefaultAdminLogin ==
    [][ /\ ( /\ last'.op = "login"
             /\ last'.username = "admin"
             /\ last'.password = DEFAULT_ADMIN_PASSWORD
             /\ last'.rwChoice \in {"1", "2"} )
            => IF Truthy(StoredOverride(ChosenAdmin(last'.rwChoice).id))
               THEN ~last'.ok /\ user' = user /\ auth_user' = auth_user
               ELSE /\ last'.ok
                    /\ user' = ChosenAdmin(last'.rwChoice)
                    /\ auth_user' = ChosenAdmin(last'.rwChoice)
        /\ \A a \in AdminIds :
              Truthy(StoredOverride(a)) => (a \in DOMAIN admin_passwords'
                                           /\ Truthy(admin_passwords'[a])) ]_vars

\* C7 witness: the default password was refused for the account of RW 01,
\* whose override is stored, while the account of RW 04 has none.
C7_Witness ==
    /\ last.op = "login" /\ ~last.ok
    /\ last.username = "admin" /\ last.password = DEFAULT_ADMIN_PASSWORD
    /\ last.rwChoice = "1"
    /\ Truthy(StoredOverride(ADMIN_RW01_ID))
    /\ ~Truthy(StoredOverride(ADMIN_RW04_ID))

\* C15: starting from an empty registry, after any sequence of register,
\* login, logout and changePassword calls no two registry entries share a
\* username and none has the reserved admin username; and every step keeps
\* each entry of the registry in place: entries are added, never removed.
C15_RegistryUsernames ==
    /\ [] /\ \A i \in 1..Len(registered_users), j \in 1..Len(registered_users) :
                i # j => registered_users[i].username # registered_users[j].username
          /\ \A i \in 1..Len(registered_users) : registered_users[i].username # "admin"
    /\ [][ /\ Len(registered_users') >= Len(registered_users)
           /\ \A i \in 1..Len(registered_users) :
                 /\ registered_users'[i].username = registered_users[i].username
                 /\ registered_users'[i].id = registered_users[i].id
                 /\ registered_users'[i].created_at = registered_users[i].created_at ]_vars

\* C15 witness: a user changed their password in a registry of two entries,
\* so the registry was rewritten with both entries in it.
C15_Witness ==
    /\ last.op = "changePassword" /\ last.ok
    /\ user # Null
    /\ user.role = "user"
    /\ Len(registered_users) = 2
    /\ \E i \in 1..2 : registered_users[i].password = last.newPassword

\* C20: after a privileged identity X has changed its password to p, a
\* login("admin", p) made while X's override is still p returns true and
\* makes X itself, with its identifier and jurisdiction, the current
\* session, whatever override the other privileged identity has stored.
C20_CustomLoginEstablishesOwner ==
    [][ \A k \in 1..Len(ADMIN_USERS) :
            ( /\ last'.op = "login"
              /\ last'.username = "admin"
              /\ Truthy(StoredOverride(ADMIN_USERS[k].id))
              /\ last'.password = StoredOverride(ADMIN_USERS[k].id) )
                => /\ last'.ok
                   /\ user' # Null
                   /\ user'.id = ADMIN_USERS[k].id
                   /\ user'.rw = ADMIN_USERS[k].rw
                   /\ auth_user' = user' ]_vars

\* No two registry entries have the same identifier.
RegistryIdsDistinct ==
    \A i \in 1..Len(registered_users), j \in 1..Len(registered_users) :
        i # j => registered_users[i].id # registered_users[j].id

\* One step, as the password of a registry user governs it: a successful
\* changePassword under the session of a registry user replaces that user's
\* password, which was old, by new, and no other entry's; a login with the
\* username of a registry entry returns true exactly when the password is
\* the one that entry holds; and an entry's password changes in no step but
\* a successful changePassword under the session of its own user.
PasswordChangeStep ==
    /\ (last'.op = "changePassword" /\ last'.ok /\ user # Null /\ user.role = "user")
          => /\ \E i \in 1..Len(registered_users) :
                   registered_users[i].username = user.username
             /\ last'.newPassword # last'.password
             /\ \A i \in 1..Len(registered_users) :
                   IF registered_users[i].username = user.username
                   THEN /\ registered_users[i].password = last'.password
                        /\ registered_users'[i].password = last'.newPassword
                   ELSE registered_users'[i].password = registered_users[i].password
    /\ ( /\ last'.op = "login"
         /\ \E i \in 1..Len(registered_users) :
               registered_users[i].username = last'.username )
          => ( last'.ok <=> \E i \in 1..Len(registered_users) :
                               /\ registered_users[i].username = last'.username
                               /\ registered_users[i].password = last'.password )
    /\ \A i \in 1..Len(registered_users) :
          registered_users'[i].password # registered_users[i].password
             => /\ last'.op = "changePassword" /\ last'.ok
                /\ user # Null
                /\ user.username = registered_users[i].username

----------------------------------------------------------------------------
(* Properties of the mount effect and what follows it, checked under MountSpec *)

\* C17: in every reachable state the identity in the session slot, in memory
\* and under the persisted session key, carries no password field, whether
\* login, changePassword or the migration of the mount effect put it there.
C17_SessionHasNoPassword ==
    /\ user # Null => "password" \notin DOMAIN user
    /\ auth_user # Null => "password" \notin DOMAIN auth_user

\* C17 witness: the mount effect has rewritten the stored session of a user
\* whose registry entry holds a password, and the session is in memory.
C17_Witness ==
    /\ last.op = "init" /\ last.id = LegacyId1
    /\ user # Null
    /\ auth_user = user
    /\ \E i \in 1..Len(registered_users) :
          /\ registered_users[i].username = user.username
          /\ Truthy(registered_users[i].password)

\* C19: after initialization has completed, every registry entry and the
\* current session identity, if any, have a well-formed UUID identifier; the
\* initialization keeps the identifier of every identity that had a
\* well-formed one, and gives a session whose identifier it rewrote the
\* identifier of the registry entry with its username.
C19_MigrationToUUID ==
    /\ [] ( ~isLoading =>
              /\ \A i \in 1..Len(registered_users) : isValidUUID(registered_users[i].id)
              /\ user # Null => isValidUUID(user.id)
              /\ auth_user # Null => isValidUUID(auth_user.id) )
    /\ [][ (isLoading /\ ~isLoading')
              => /\ Len(registered_users') = Len(registered_users)
                 /\ \A i \in 1..Len(registered_users) :
                       /\ registered_users'[i].username = registered_users[i].username
                       /\ isValidUUID(registered_users[i].id)
                             => registered_users'[i].id = registered_users[i].id
                 /\ (auth_user = Null) = (auth_user' = Null)
                 /\ auth_user # Null =>
                       /\ user' = auth_user'
                       /\ auth_user'.username = auth_user.username
                       /\ isValidUUID(auth_user.id) => auth_user'.id = auth_user.id
                       /\ ~isValidUUID(auth_user.id) =>
                             /\ \E i \in 1..Len(registered_users') :
                                   registered_users'[i].username = auth_user'.username
                             /\ \A i \in 1..Len(registered_users') :
                                   registered_users'[i].username = auth_user'.username
                                      => registered_users'[i].id = auth_user'.id ]_vars

\* C19 witness: initialization found a session and two registry entries with
\* identifiers of the old kind, and has given the session and its entry one
\* UUID and the other entry a different one.
C19_Witness ==
    /\ last.op = "init" /\ ~isLoading
    /\ ~isValidUUID(last.id) /\ Truthy(last.id)
    /\ user # Null
    /\ isValidUUID(user.id)
    /\ Len(registered_users) = 2
    /\ \E i, j \in 1..2 :
          /\ registered_users[i].username = user.username
          /\ registered_users[i].id = user.id
          /\ registered_users[j].id # user.id
          /\ isValidUUID(registered_users[j].id)

====
